---------------------------- MODULE Spec2Model ----------------------------
(***************************************************************************)
(* The #[lazy] attribute macro of src/src/lib.rs and the code it           *)
(* generates.                                                              *)
(*                                                                         *)
(* Compile time: the compiler hands lazy() the attribute's argument tokens *)
(* and the annotated item's tokens; lazy() returns a token stream (the     *)
(* generated items) and may emit diagnostics; the compiler then checks the *)
(* generated items against the declared type.                              *)
(*                                                                         *)
(* Run time: the generated deref, called by several threads, over the two  *)
(* function-local statics ONCE and VALUE.                                  *)
(*                                                                         *)
(* Tokens are abstract: "I" and "String" are identifiers (each is also a   *)
(* path type and a path expression), "lit" is a literal expression.        *)
(***************************************************************************)
EXTENDS Naturals, Sequences, FiniteSets, TLC

VARIABLES
    phase,      \* "source" | "expanded" | "compiled" | "rejected" | "running"
    attr,       \* the attribute's argument tokens
    item,       \* the annotated item's tokens
    diag,       \* diagnostics emitted by the macro
    output,     \* the token stream lazy() returned: a sequence of items
    tyKind,     \* what the declared type is: Sync and Sized, or not
    initKind,   \* what evaluating the initializer expression does
    once,       \* state of static ONCE
    VALUE,      \* static mut VALUE: an address, NULL at first
    heap,       \* boxed values, by address
    pc,         \* per thread: its position in deref
    tmp,        \* per thread: the pointer Box::into_raw returned
    depth,      \* per thread: 1 inside a deref nested in the initializer
    called,     \* whether any deref call has started
    initRuns,   \* how many times the call_once closure has been entered
    writes,     \* how many times VALUE has been assigned
    returned    \* per thread: every reference deref has returned to it

vars == <<phase, attr, item, diag, output, tyKind, initKind, once, VALUE, heap,
          pc, tmp, depth, called, initRuns, writes, returned>>

compileVars == <<attr, item, diag, output, tyKind>>
runVars == <<initKind, once, VALUE, heap, pc, tmp, depth, called, initRuns,
             writes, returned>>

----------------------------------------------------------------------------
(* Bounds *)

NumThreads == 2
MaxShort == 2

Threads == 1..NumThreads

----------------------------------------------------------------------------
(* Tokens and the inputs of the macro *)

Idents == {"I", "String"}
Keywords == {"pub", "static", "mut"}
Puncts == {":", "=", ";"}
Lits == {"lit"}
Tokens == Keywords \cup Idents \cup Puncts \cup Lits

Range(s) == {s[i] : i \in 1..Len(s)}

\* The declaration of tests/main.rs, and the one of the doc comment (pub).
TestItem == <<"static", "I", ":", "String", "=", "lit", ";">>
DocItem == <<"pub">> \o TestItem

RemoveAt(s, i) == SubSeq(s, 1, i - 1) \o SubSeq(s, i + 1, Len(s))
InsertAt(s, i, t) == SubSeq(s, 1, i - 1) \o <<t>> \o SubSeq(s, i, Len(s))
SwapAt(s, i) == [s EXCEPT ![i] = s[i + 1], ![i + 1] = s[i]]

\* Every input one token away from s: a token missing, extra, replaced, or
\* two neighbours reordered.
Deviations(s) ==
    {RemoveAt(s, i) : i \in 1..Len(s)}
    \cup {InsertAt(s, i, t) : i \in 1..(Len(s) + 1), t \in Tokens}
    \cup {[s EXCEPT ![i] = t] : i \in 1..Len(s), t \in Tokens}
    \cup {SwapAt(s, i) : i \in 1..(Len(s) - 1)}

ShortItems == UNION {[1..n -> Tokens] : n \in 0..MaxShort}

Items == {TestItem, DocItem} \cup Deviations(TestItem) \cup Deviations(DocItem)
         \cup ShortItems

Attrs == {<<>>, <<"lit">>, <<"I", "=", "lit">>}

----------------------------------------------------------------------------
(* LazyStatic::parse, over a cursor into the item's tokens *)

Ok(pos, val) == [ok |-> TRUE, pos |-> pos, val |-> val]
Err(pos, msg) == [ok |-> FALSE, pos |-> pos, val |-> msg]

Peek(input, pos) == IF pos <= Len(input) THEN input[pos] ELSE "eof"

\* input.parse::<Visibility>(): `pub` if it is there, inherited otherwise.
ParseVisibility(input, pos) ==
    IF Peek(input, pos) = "pub" THEN Ok(pos + 1, "pub") ELSE Ok(pos, "")

\* input.parse::<Token![tok]>()
ParseToken(input, pos, tok) ==
    IF Peek(input, pos) = tok THEN Ok(pos + 1, tok)
    ELSE Err(pos, "expected " \o tok)

\* input.parse::<Ident>(): keywords are not identifiers.
ParseIdent(input, pos) ==
    IF Peek(input, pos) \in Idents THEN Ok(pos + 1, Peek(input, pos))
    ELSE Err(pos, "expected identifier")

\* input.parse::<Type>(): of these tokens only an identifier starts a type.
ParseType(input, pos) ==
    IF Peek(input, pos) \in Idents THEN Ok(pos + 1, Peek(input, pos))
    ELSE Err(pos, "expected type")

\* input.parse::<Expr>(): a path or a literal.
ParseExpr(input, pos) ==
    IF Peek(input, pos) \in Idents \cup Lits THEN Ok(pos + 1, Peek(input, pos))
    ELSE Err(pos, "expected expression")

LazyStatic(visibility, name, ty, init) ==
    [visibility |-> visibility, name |-> name, ty |-> ty, init |-> init]

LazyStatic_parse(input) ==
    LET r1 == ParseVisibility(input, 1)
        r2 == ParseToken(input, r1.pos, "static")
        r3 == ParseIdent(input, r2.pos)
        r4 == ParseToken(input, r3.pos, ":")
        r5 == ParseType(input, r4.pos)
        r6 == ParseToken(input, r5.pos, "=")
        r7 == ParseExpr(input, r6.pos)
        r8 == ParseToken(input, r7.pos, ";")
    IN  IF ~r2.ok THEN r2
        ELSE IF ~r3.ok THEN r3
        ELSE IF ~r4.ok THEN r4
        ELSE IF ~r5.ok THEN r5
        ELSE IF ~r6.ok THEN r6
        ELSE IF ~r7.ok THEN r7
        ELSE IF ~r8.ok THEN r8
        ELSE Ok(r8.pos, LazyStatic(r1.val, r3.val, r5.val, r7.val))

\* A faulty variant of parse_macro_input: tokens left after the `;` are ignored.
parse_macro_input_NoEofCheck(input) ==
    LazyStatic_parse(input)

\* parse_macro_input!(item as LazyStatic): syn::parse runs the parser and
\* then refuses any token the parser left unconsumed.
parse_macro_input(input) ==
    LET r == LazyStatic_parse(input)
    IN  IF r.ok /\ r.pos <= Len(input) THEN Err(r.pos, "unexpected token")
        ELSE r

----------------------------------------------------------------------------
(* The expansion *)

assert_sync(ty) == [stmt |-> "assert", trait |-> "Sync", ty |-> ty]
assert_sized(ty) == [stmt |-> "assert", trait |-> "Sized", ty |-> ty]
init_ptr(init) == [call |-> "Box::into_raw", arg |-> [call |-> "Box::new", arg |-> init]]

NULL == 0

\* A faulty variant of deref_body: the Sync assertion is left out.
deref_body_NoSync(ty, init) ==
    << assert_sized(ty),
       [stmt |-> "static", name |-> "ONCE", init |-> "Once::new()"],
       [stmt |-> "static mut", name |-> "VALUE", ty |-> ty, init |-> NULL],
       [stmt |-> "call_once", once |-> "ONCE", assign |-> "VALUE",
        value |-> init_ptr(init)],
       [stmt |-> "deref", place |-> "VALUE"] >>

\* The body of the generated deref.
deref_body(ty, init) ==
    << assert_sync(ty),
       assert_sized(ty),
       [stmt |-> "static", name |-> "ONCE", init |-> "Once::new()"],
       [stmt |-> "static mut", name |-> "VALUE", ty |-> ty, init |-> NULL],
       [stmt |-> "call_once", once |-> "ONCE", assign |-> "VALUE",
        value |-> init_ptr(init)],
       [stmt |-> "deref", place |-> "VALUE"] >>

\* A faulty variant of expanded: the impl's Target is the marker, not the declared type.
expanded_TargetIsName(ls) ==
    << [item |-> "struct", vis |-> ls.visibility, name |-> ls.name],
       [item |-> "impl", trait |-> "std::ops::Deref", for |-> ls.name,
        target |-> ls.name, ret |-> ls.ty,
        body |-> deref_body(ls.ty, ls.init)] >>

\* quote! { #visibility struct #name; impl std::ops::Deref for #name {...} }
expanded(ls) ==
    << [item |-> "struct", vis |-> ls.visibility, name |-> ls.name],
       [item |-> "impl", trait |-> "std::ops::Deref", for |-> ls.name,
        target |-> ls.ty, ret |-> ls.ty,
        body |-> deref_body(ls.ty, ls.init)] >>

EmptyTokenStream == <<>>
compile_error(msg) == << [item |-> "compile_error", msg |-> msg] >>
NoParameterMsg == "no parameter should be at here."

\* A faulty variant of lazy: the diagnostic is emitted but the macro goes on.
lazy_NoEarlyReturn(a, it) ==
    LET r == parse_macro_input(it)
        d == IF a # <<>> THEN <<NoParameterMsg>> ELSE <<>>
    IN  IF ~r.ok THEN [diag |-> d, out |-> compile_error(r.val)]
        ELSE [diag |-> d, out |-> expanded(r.val)]

\* pub fn lazy(attr, item) -> TokenStream, with the diagnostics it emits.
lazy(a, it) ==
    IF a # <<>> THEN [diag |-> <<NoParameterMsg>>, out |-> EmptyTokenStream]
    ELSE LET r == parse_macro_input(it)
         IN  IF ~r.ok THEN [diag |-> <<>>, out |-> compile_error(r.val)]
             ELSE [diag |-> <<>>, out |-> expanded(r.val)]

----------------------------------------------------------------------------
(* The compiler's check of what the macro returned *)

TyKinds == {"sync_sized", "not_sync", "not_sized"}

Implements(k, trait) ==
    CASE trait = "Sync" -> k # "not_sync"
      [] trait = "Sized" -> k # "not_sized"

Impls(out) == {out[i] : i \in {j \in 1..Len(out) : out[j].item = "impl"}}

\* struct _AssertSync where #ty: Sync; struct _AssertSized where #ty: Sized;
\* a where clause that does not hold is error E0277. `0 as *mut #ty` and
\* Box::new need a Sized type whether or not it is asserted.
Compiles(out, d, k) ==
    /\ d = <<>>
    /\ \A i \in 1..Len(out) : out[i].item # "compile_error"
    /\ \A im \in Impls(out) :
          /\ \A s \in Range(im.body) :
                s.stmt = "assert" => Implements(k, s.trait)
          /\ \A s \in Range(im.body) :
                s.stmt = "static mut" => Implements(k, "Sized")

\* The initializer expression the generated closure evaluates.
InitExpr(out) ==
    LET im == CHOOSE x \in Impls(out) : TRUE
        st == CHOOSE s \in Range(im.body) : s.stmt = "call_once"
    IN  st.value.arg.arg

Eval(e) == <<"value of", e>>

----------------------------------------------------------------------------
(* Initial state: a declaration in the source, nothing expanded or run *)

InitKinds == {"value", "panic", "reenter"}

IdleRun ==
    /\ initKind = "none"
    /\ once = "INCOMPLETE"
    /\ VALUE = NULL
    /\ heap = <<>>
    /\ pc = [t \in Threads |-> "idle"]
    /\ tmp = [t \in Threads |-> NULL]
    /\ depth = [t \in Threads |-> 0]
    /\ called = FALSE
    /\ initRuns = 0
    /\ writes = 0
    /\ returned = [t \in Threads |-> {}]

Init ==
    /\ phase = "source"
    /\ attr \in Attrs
    /\ item \in Items
    /\ diag = <<>>
    /\ output = <<>>
    /\ tyKind = "none"
    /\ IdleRun

----------------------------------------------------------------------------
(* Compile-time actions *)

\* The compiler invokes the attribute macro.
Lazy ==
    /\ phase = "source"
    /\ phase' = "expanded"
    /\ diag' = lazy(attr, item).diag
    /\ output' = lazy(attr, item).out
    /\ UNCHANGED <<attr, item, tyKind>>
    /\ UNCHANGED runVars

\* The compiler checks the generated items; the declared type is one of
\* TyKinds.
Rustc ==
    /\ phase = "expanded"
    /\ \E k \in TyKinds :
          /\ tyKind' = k
          /\ phase' = IF Compiles(output, diag, k) /\ output # <<>>
                      THEN "compiled" ELSE "rejected"
    /\ UNCHANGED <<attr, item, diag, output>>
    /\ UNCHANGED runVars

----------------------------------------------------------------------------
(* Run time: the generated deref *)

\* A faulty variant of StartProgram: the initializer is evaluated at program start.
StartProgram_Eager ==
    /\ phase = "compiled"
    /\ phase' = "running"
    /\ initKind' = "value"
    /\ heap' = <<Eval(InitExpr(output))>>
    /\ VALUE' = 1
    /\ once' = "COMPLETE"
    /\ initRuns' = 1
    /\ writes' = 1
    /\ UNCHANGED <<pc, tmp, depth, called, returned>>
    /\ UNCHANGED compileVars

\* The program starts: ONCE is Once::new(), VALUE is 0 as *mut T. What the
\* initializer expression does when evaluated is a property of the program.
StartProgram ==
    /\ phase = "compiled"
    /\ phase' = "running"
    /\ \E k \in InitKinds : initKind' = k
    /\ once' = "INCOMPLETE"
    /\ VALUE' = NULL
    /\ UNCHANGED <<heap, pc, tmp, depth, called, initRuns, writes, returned>>
    /\ UNCHANGED compileVars

\* Thread t is running the call_once closure.
Runner(t) == pc[t] \in {"init", "store", "complete"} \/ depth[t] = 1

\* A panic in thread t unwinds out of deref; if it unwinds through the
\* closure, call_once leaves ONCE poisoned.
Panic(t) ==
    /\ pc' = [pc EXCEPT ![t] = "panicked"]
    /\ depth' = [depth EXCEPT ![t] = 0]
    /\ once' = IF Runner(t) THEN "POISONED" ELSE once

\* fn deref(&self) is entered.
Deref(t) ==
    /\ phase = "running"
    /\ pc[t] = "idle"
    /\ pc' = [pc EXCEPT ![t] = "call_once"]
    /\ called' = TRUE
    /\ UNCHANGED <<phase, initKind, once, VALUE, heap, tmp, depth, initRuns,
                   writes, returned>>
    /\ UNCHANGED compileVars

\* A faulty variant of CallOnce: the closure is run whenever ONCE is not complete,
\* also while another thread is running it.
CallOnce_NoExclusion(t) ==
    /\ phase = "running"
    /\ pc[t] = "call_once"
    /\ IF once = "COMPLETE"
       THEN /\ pc' = [pc EXCEPT ![t] = "load"]
            /\ UNCHANGED <<once, depth, initRuns>>
       ELSE /\ once' = "RUNNING"
            /\ pc' = [pc EXCEPT ![t] = "init"]
            /\ initRuns' = initRuns + 1
            /\ UNCHANGED depth
    /\ UNCHANGED <<phase, initKind, VALUE, heap, tmp, called, writes, returned>>
    /\ UNCHANGED compileVars

\* A faulty variant of CallOnce: a caller that finds the closure running does not
\* wait for it.
CallOnce_NoWait(t) ==
    /\ phase = "running"
    /\ pc[t] = "call_once"
    /\ \/ /\ once \in {"COMPLETE", "RUNNING"}
          /\ pc' = [pc EXCEPT ![t] = "load"]
          /\ UNCHANGED <<once, depth, initRuns>>
       \/ /\ once = "INCOMPLETE"
          /\ once' = "RUNNING"
          /\ pc' = [pc EXCEPT ![t] = "init"]
          /\ initRuns' = initRuns + 1
          /\ UNCHANGED depth
       \/ /\ once = "POISONED"
          /\ Panic(t)
          /\ UNCHANGED initRuns
    /\ UNCHANGED <<phase, initKind, VALUE, heap, tmp, called, writes, returned>>
    /\ UNCHANGED compileVars

\* ONCE.call_once(closure), up to the point where the caller runs the
\* closure, blocks or fails. A call made from inside the closure itself
\* finds ONCE running: std leaves the outcome open, a deadlock or a panic.
CallOnce(t) ==
    /\ phase = "running"
    /\ pc[t] = "call_once"
    /\ \/ /\ once = "COMPLETE"
          /\ pc' = [pc EXCEPT ![t] = "load"]
          /\ UNCHANGED <<once, depth, initRuns>>
       \/ /\ once = "INCOMPLETE"
          /\ once' = "RUNNING"
          /\ pc' = [pc EXCEPT ![t] = "init"]
          /\ initRuns' = initRuns + 1
          /\ UNCHANGED depth
       \/ /\ once = "RUNNING"
          /\ pc' = [pc EXCEPT ![t] = "wait"]
          /\ UNCHANGED <<once, depth, initRuns>>
       \/ /\ once = "RUNNING"
          /\ Runner(t)
          /\ Panic(t)
          /\ UNCHANGED initRuns
       \/ /\ once = "POISONED"
          /\ Panic(t)
          /\ UNCHANGED initRuns
    /\ UNCHANGED <<phase, initKind, VALUE, heap, tmp, called, writes, returned>>
    /\ UNCHANGED compileVars

\* The closure evaluates Box::into_raw(Box::new(#init)).
EvalInit(t) ==
    /\ phase = "running"
    /\ pc[t] = "init"
    /\ \/ /\ initKind = "value"
          /\ heap' = Append(heap, Eval(InitExpr(output)))
          /\ tmp' = [tmp EXCEPT ![t] = Len(heap) + 1]
          /\ pc' = [pc EXCEPT ![t] = "store"]
          /\ UNCHANGED <<once, depth, called>>
       \/ /\ initKind = "panic"
          /\ Panic(t)
          /\ UNCHANGED <<heap, tmp, called>>
       \/ /\ initKind = "reenter"
          /\ pc' = [pc EXCEPT ![t] = "call_once"]
          /\ depth' = [depth EXCEPT ![t] = 1]
          /\ called' = TRUE
          /\ UNCHANGED <<once, heap, tmp>>
    /\ UNCHANGED <<phase, initKind, VALUE, initRuns, writes, returned>>
    /\ UNCHANGED compileVars

\* VALUE = <the pointer>, inside the closure.
StoreValue(t) ==
    /\ phase = "running"
    /\ pc[t] = "store"
    /\ VALUE' = tmp[t]
    /\ writes' = writes + 1
    /\ pc' = [pc EXCEPT ![t] = "complete"]
    /\ UNCHANGED <<phase, initKind, once, heap, tmp, depth, called, initRuns,
                   returned>>
    /\ UNCHANGED compileVars

\* A faulty variant of CompleteOnce: the run is not recorded, ONCE is incomplete
\* again.
CompleteOnce_Forget(t) ==
    /\ phase = "running"
    /\ pc[t] = "complete"
    /\ once' = "INCOMPLETE"
    /\ pc' = [pc EXCEPT ![t] = "load"]
    /\ UNCHANGED <<phase, initKind, VALUE, heap, tmp, depth, called, initRuns,
                   writes, returned>>
    /\ UNCHANGED compileVars

\* A faulty variant of CompleteOnce: ONCE is left running, the waiters are not woken.
CompleteOnce_NoWake(t) ==
    /\ phase = "running"
    /\ pc[t] = "complete"
    /\ pc' = [pc EXCEPT ![t] = "load"]
    /\ UNCHANGED <<phase, initKind, once, VALUE, heap, tmp, depth, called,
                   initRuns, writes, returned>>
    /\ UNCHANGED compileVars

\* The closure has returned: call_once marks ONCE complete, which wakes the
\* waiters, and returns.
CompleteOnce(t) ==
    /\ phase = "running"
    /\ pc[t] = "complete"
    /\ once' = "COMPLETE"
    /\ pc' = [pc EXCEPT ![t] = "load"]
    /\ UNCHANGED <<phase, initKind, VALUE, heap, tmp, depth, called, initRuns,
                   writes, returned>>
    /\ UNCHANGED compileVars

\* A faulty variant of Wake: a caller that had to wait fails.
Wake_Fail(t) ==
    /\ phase = "running"
    /\ pc[t] = "wait"
    /\ once \in {"COMPLETE", "POISONED"}
    /\ Panic(t)
    /\ UNCHANGED <<phase, initKind, VALUE, heap, tmp, called, initRuns, writes,
                   returned>>
    /\ UNCHANGED compileVars

\* A caller blocked in call_once goes on once the run it waited for is over:
\* it returns if the run completed and panics if it left ONCE poisoned.
Wake(t) ==
    /\ phase = "running"
    /\ pc[t] = "wait"
    /\ \/ /\ once = "COMPLETE"
          /\ pc' = [pc EXCEPT ![t] = "load"]
          /\ UNCHANGED <<once, depth>>
       \/ /\ once = "POISONED"
          /\ Panic(t)
    /\ UNCHANGED <<phase, initKind, VALUE, heap, tmp, called, initRuns, writes,
                   returned>>
    /\ UNCHANGED compileVars

\* &*VALUE: deref returns the reference. Dereferencing a null VALUE is
\* undefined behaviour: the reference may then be anything.
Load(t) ==
    /\ phase = "running"
    /\ pc[t] = "load"
    /\ \E r \in (IF VALUE = NULL THEN 0..Len(heap) ELSE {VALUE}) :
          returned' = [returned EXCEPT ![t] = @ \cup {r}]
    /\ pc' = [pc EXCEPT ![t] = "idle"]
    /\ UNCHANGED <<phase, initKind, once, VALUE, heap, tmp, depth, called,
                   initRuns, writes>>
    /\ UNCHANGED compileVars

\* The steps thread t takes inside a deref call.
Step(t) ==
    \/ CallOnce(t)
    \/ EvalInit(t)
    \/ StoreValue(t)
    \/ CompleteOnce(t)
    \/ Wake(t)
    \/ Load(t)

Next ==
    \/ Lazy
    \/ Rustc
    \/ StartProgram
    \/ \E t \in Threads : Deref(t)
    \/ \E t \in Threads : Step(t)

Spec == Init /\ [][Next]_vars

\* Every thread inside a deref call is scheduled.
FairSpec == Spec /\ \A t \in Threads : WF_vars(Step(t))

----------------------------------------------------------------------------
(* Properties *)

InClosure(t) == pc[t] \in {"init", "store", "complete"}
AllReturned == UNION {returned[t] : t \in Threads}
Failed(t) == pc[t] = "panicked"

\* The declaration syntax, stated on the token sequence itself.
DeclSyntax ==
    {v \o <<"static", n, ":", ty, "=", e, ";">> :
        v \in {<<>>, <<"pub">>}, n \in Idents, ty \in Idents,
        e \in Idents \cup Lits}

\* The parts of a declaration, by position from its end.
DeclVis(d) == IF d[1] = "pub" THEN "pub" ELSE ""
DeclName(d) == d[Len(d) - 5]
DeclTy(d) == d[Len(d) - 3]
DeclInit(d) == d[Len(d) - 1]

MacroRan == phase # "source"
Accepted == phase \in {"compiled", "running"}

\* C1: the call_once closure (the initializer) is entered at most once in the
\* whole run, and never by two threads at once, whatever the interleaving.
C1_InitAtMostOnce ==
    /\ initRuns <= 1
    /\ Cardinality({t \in Threads : Runner(t)}) <= 1
    /\ Len(heap) <= 1

\* C1 witness: two threads raced for the first access; one runs the
\* initializer, the other is held in call_once.
C1_Witness ==
    \E t1, t2 \in Threads :
        /\ pc[t1] = "init"
        /\ pc[t2] = "wait"
        /\ initRuns = 1

\* C2: VALUE is assigned at most once, and every reference any deref call
\* has returned is that one non-null pointer, whose box holds the
\* initializer's result.
C2_SameValue ==
    /\ writes <= 1
    /\ (writes = 0) = (VALUE = NULL)
    /\ AllReturned # {} =>
          /\ writes = 1
          /\ AllReturned = {VALUE}
          /\ heap[VALUE] = Eval(InitExpr(output))

\* C2 witness: every thread has had a call return, and one is returning again.
C2_Witness ==
    /\ \A t \in Threads : returned[t] # {}
    /\ \E t \in Threads : pc[t] = "load"

\* C3: as long as no deref call has started, the initializer has not been
\* evaluated and VALUE is null; the initializer runs only inside a deref call.
C3_Lazy ==
    /\ ~called => (initRuns = 0 /\ VALUE = NULL /\ heap = <<>>
                   /\ once = "INCOMPLETE")
    /\ \A t \in Threads : InClosure(t) => called

\* C3 witness: the program is running and nothing has called deref yet.
C3_Witness ==
    /\ phase = "running"
    /\ initKind = "value"
    /\ ~called

\* C4 as stated: no deref call ever ends in a runtime failure.
C4_NoRuntimeFailure ==
    \A t \in Threads : ~Failed(t)

\* C4 amended: a deref call fails at run time only when the initializer run
\* itself fails (the expression panics, or re-enters deref on the same
\* static); the panic then leaves ONCE poisoned and VALUE null.
C4_FailureOnlyFromInit ==
    (\E t \in Threads : Failed(t)) =>
        /\ initKind \in {"panic", "reenter"}
        /\ once = "POISONED"
        /\ VALUE = NULL

\* C4 witness: the initializer panicked in one call and a later call failed on
\* the poisoned ONCE.
C4_Witness ==
    /\ initKind = "panic"
    /\ \A t \in Threads : Failed(t)

\* C5: with any attribute argument the macro emits the one diagnostic and
\* returns the empty token stream, whatever the item; nothing is generated.
C5_AttrRejected ==
    (MacroRan /\ attr # <<>>) =>
        /\ diag = <<NoParameterMsg>>
        /\ output = <<>>
        /\ ~Accepted

\* C5 witness: the macro ran with an argument on a malformed item, and no
\* parse error came out.
C5_Witness ==
    /\ phase = "rejected"
    /\ attr = <<"lit">>
    /\ item = <<"static", "mut">>
    /\ output = <<>>

\* C6: without attribute arguments the macro generates the struct and the
\* impl exactly for the items of the declaration syntax; every other item
\* yields a compile error and nothing else.
C6_ParseExact ==
    (MacroRan /\ attr = <<>>) =>
        IF item \in DeclSyntax
        THEN /\ diag = <<>>
             /\ Len(output) = 2
             /\ output[1].item = "struct"
             /\ output[2].item = "impl"
        ELSE /\ Len(output) = 1
             /\ output[1].item = "compile_error"
             /\ ~Accepted

\* C6 witness: a well-formed declaration followed by one more token is
\* refused.
C6_Witness ==
    /\ phase = "rejected"
    /\ attr = <<>>
    /\ item = TestItem \o <<";">>
    /\ output = compile_error("unexpected token")

\* get_type_name(&N) of tests/main.rs: the item named n in the expansion.
TypeName(out, n) ==
    IF \E x \in Range(out) : x.item = "struct" /\ x.name = n
    THEN "main::" \o n
    ELSE "unresolved"

\* C7: an accepted declaration `V static N: T = E;` expands to the unit
\* struct N with visibility V and one Deref impl for N with Target T returning
\* &T; N names the marker type, and what deref returns holds the value of E.
C7_Expansion ==
    (MacroRan /\ attr = <<>> /\ item \in DeclSyntax) =>
        /\ Len(output) = 2
        /\ output[1] = [item |-> "struct", vis |-> DeclVis(item),
                        name |-> DeclName(item)]
        /\ output[2].item = "impl"
        /\ output[2].trait = "std::ops::Deref"
        /\ output[2].for = DeclName(item)
        /\ output[2].target = DeclTy(item)
        /\ output[2].ret = DeclTy(item)
        /\ TypeName(output, DeclName(item)) = "main::" \o DeclName(item)
        /\ \A r \in AllReturned :
              r # NULL /\ heap[r] = Eval(DeclInit(item))

\* C7 witness: the pub declaration was expanded, compiled, and deref has
\* returned.
C7_Witness ==
    /\ phase = "running"
    /\ item = DocItem
    /\ AllReturned # {}

\* C8: the generated deref body asserts T: Sync and T: Sized for the declared
\* type T, and no declaration whose type is not both is ever compiled.
C8_Asserts ==
    /\ (MacroRan /\ attr = <<>> /\ item \in DeclSyntax) =>
          /\ [stmt |-> "assert", trait |-> "Sync", ty |-> DeclTy(item)]
                \in Range(output[2].body)
          /\ [stmt |-> "assert", trait |-> "Sized", ty |-> DeclTy(item)]
                \in Range(output[2].body)
    /\ Accepted => tyKind = "sync_sized"

\* C8 witness: the test's declaration with a type that is not Sync is
\* rejected by the compiler.
C8_Witness ==
    /\ phase = "rejected"
    /\ attr = <<>>
    /\ item = TestItem
    /\ tyKind = "not_sync"

\* C9: a thread executes &*VALUE only after the initializer run has
\* completed and VALUE holds the non-null pointer; no null reference is
\* ever returned.
C9_NoNullDeref ==
    /\ \A t \in Threads :
          pc[t] = "load" =>
              /\ VALUE # NULL
              /\ once = "COMPLETE"
              /\ \A u \in Threads : ~InClosure(u)
    /\ NULL \notin AllReturned

\* C9 witness: a thread is held in call_once while another has evaluated the
\* initializer and not yet stored VALUE.
C9_Witness ==
    \E t1, t2 \in Threads :
        /\ pc[t1] = "store"
        /\ pc[t2] = "wait"
        /\ VALUE = NULL

============================================================================
